---- MODULE Spec2Model ----
(***************************************************************************)
(* tap-channeldock: the page-cursor protocol (ChanneldockPaginator), the   *)
(* response validation / throttling (ChanneldockStream.validate_response), *)
(* the request parameters of the four streams and the bookmark protocol.   *)
(*                                                                         *)
(* The stream classes derive from the Singer SDK's RESTStream              *)
(* (client.py:67).  The SDK drives the hooks the repository defines in     *)
(* this order, which the sync actions below follow:                        *)
(*   Stream.sync            get_replication_key_signpost(), then           *)
(*                          _write_starting_replication_value()            *)
(*   RESTStream.request_records                                            *)
(*                          paginator = get_new_paginator()                *)
(*                          while not paginator.finished:                  *)
(*                            prepare_request -> get_url_params(token)     *)
(*                            _request -> validate_response (retried on    *)
(*                                        RetriableAPIError)               *)
(*                            parse_response, post_process, emit,          *)
(*                              increment_state (progress marker)          *)
(*                            paginator.advance -> get_next                *)
(*   Stream._finalize_state promotes the progress marker to the bookmark,  *)
(*                          capped by the signpost when one was written.   *)
(*                                                                         *)
(* Optional values (None or a value) are sets with at most one element.    *)
(* Timestamps "YYYY-MM-DD HH:MM:SS" are whole seconds; a dict is a         *)
(* function whose DOMAIN is its set of keys.                               *)
(***************************************************************************)
EXTENDS Integers, Sequences, FiniteSets, TLC

\* ---------------------------------------------------------------- bounds
MaxClock == 3
TicksPerSecond == 2
DayLen == 2
MaxSyncs == 2
MaxTries == 2
MaxPage == 3
MaxCalls == 2
MaxAttempts == 6

\* ------------------------------------------------------ program constants
PAGE_SIZE == 50
REQUEST_DELAY_TENTHS == 5

Entities == {"products", "suppliers", "orders", "deliveries"}

None == {}
Some(v) == {v}
The(o) == CHOOSE v \in o : TRUE
Min(a, b) == IF a < b THEN a ELSE b

\* every stream class declared INCREMENTAL
replication_method_AllIncremental(e) == "INCREMENTAL"

\* replication_key of each stream class; None for the FULL_TABLE stream
replication_key(e) ==
    CASE e = "products"   -> Some("stocking_date")
      [] e = "suppliers"  -> None
      [] e = "orders"     -> Some("updated_at")
      [] e = "deliveries" -> Some("updated_at")

replication_method(e) ==
    IF e = "suppliers" THEN "FULL_TABLE" ELSE "INCREMENTAL"

Incremental == {e \in Entities : replication_method(e) = "INCREMENTAL"}

\* the key records_jsonpath "$.<key>[*]" selects
records_key(e) == e

\* the "<entity>_count" key that goes with an entity's list key
CountKey(e) ==
    CASE e = "products"   -> "products_count"
      [] e = "suppliers"  -> "suppliers_count"
      [] e = "orders"     -> "orders_count"
      [] e = "deliveries" -> "deliveries_count"

\* ------------------------------------------------------------ page bodies
\* kind      "unparseable" (not JSON: response.json() raises
\*           requests.exceptions.JSONDecodeError), "overnested" (JSON nested
\*           deeper than the decoder's recursion limit: response.json()
\*           raises RecursionError), "list" (a top-level JSON list), "dict"
\*           (a mapping)
\* entity    the entity whose key names the mapping uses
\* count     the value under "<entity>_count", None when the key is absent
\* listKind  "absent", "null" (present, not a list) or "list"
\* len       the length of the list under "<entity>"
\* error     the mapping has "response": "error"
ListLens == {0, PAGE_SIZE - 1, PAGE_SIZE}
Counts == {0, 120}

DictBodies ==
    [kind : {"dict"}, entity : Entities, count : {None} \cup {Some(c) : c \in Counts},
     listKind : {"absent", "null", "list"}, len : ListLens, error : BOOLEAN]

Bodies ==
    {b \in DictBodies : b.listKind # "list" => b.len = 0}
    \cup [kind : {"unparseable", "overnested"}, entity : {"products"},
          count : {None},
          listKind : {"absent"}, len : {0}, error : {FALSE}]
    \cup [kind : {"list"}, entity : {"products"}, count : {None},
          listKind : {"absent"}, len : ListLens, error : {FALSE}]

\* data.get(key, default) on a mapping body; a list value is [isList, len]
BodyGet(b, key, default) ==
    IF key = CountKey(b.entity) /\ b.count # None THEN The(b.count)
    ELSE IF key = b.entity /\ b.listKind # "absent"
         THEN [isList |-> b.listKind = "list", len |-> b.len]
    ELSE default

EmptyList == [isList |-> TRUE, len |-> 0]

\* get_next with "self._page += 1" moved above the checks
get_next_EagerIncrement(b, page) ==
    IF b.kind \in {"unparseable", "overnested"}
    THEN [ret |-> None, page |-> page, raised |-> FALSE]
    ELSE IF b.kind = "dict" /\ BodyGet(b, "products_count", 0) = 0
    THEN [ret |-> None, page |-> page + 1, raised |-> FALSE]
    ELSE IF b.kind = "dict" /\ ~BodyGet(b, "products", EmptyList).isList
    THEN [ret |-> None, page |-> page + 1, raised |-> TRUE]
    ELSE IF b.kind = "dict" /\ BodyGet(b, "products", EmptyList).len < PAGE_SIZE
    THEN [ret |-> None, page |-> page + 1, raised |-> FALSE]
    ELSE [ret |-> Some(page + 1), page |-> page + 1, raised |-> FALSE]

\* get_next with defaults that stand for "more to come" when the keys are
\* missing: data.get("products_count", 1) and a missing list taken as full
get_next_MissingKeysAdvance(b, page) ==
    IF b.kind \in {"unparseable", "overnested"}
    THEN [ret |-> None, page |-> page, raised |-> FALSE]
    ELSE IF b.kind = "dict" /\ BodyGet(b, "products_count", 1) = 0
    THEN [ret |-> None, page |-> page, raised |-> FALSE]
    ELSE IF b.kind = "dict"
            /\ ~BodyGet(b, "products", [isList |-> TRUE, len |-> PAGE_SIZE]).isList
    THEN [ret |-> None, page |-> page, raised |-> TRUE]
    ELSE IF b.kind = "dict"
            /\ BodyGet(b, "products", [isList |-> TRUE, len |-> PAGE_SIZE]).len
                  < PAGE_SIZE
    THEN [ret |-> None, page |-> page, raised |-> FALSE]
    ELSE [ret |-> Some(page + 1), page |-> page + 1, raised |-> FALSE]

\* ------------------------------------------------- ChanneldockPaginator
\* get_next(response) on a paginator whose _page is page:
\* ret is the returned token (None or page + 1), raised is TRUE when len()
\* is applied to a value that is not a list.
get_next(b, page) ==
    IF b.kind \in {"unparseable", "overnested"}
    THEN [ret |-> None, page |-> page, raised |-> FALSE]
    ELSE IF b.kind = "dict"
            /\ BodyGet(b, "products_count", 0) = 0
    THEN [ret |-> None, page |-> page, raised |-> FALSE]
    ELSE IF b.kind = "dict"
            /\ ~BodyGet(b, "products", EmptyList).isList
    THEN [ret |-> None, page |-> page, raised |-> TRUE]
    ELSE IF b.kind = "dict"
            /\ BodyGet(b, "products", EmptyList).len < PAGE_SIZE
    THEN [ret |-> None, page |-> page, raised |-> FALSE]
    ELSE [ret |-> Some(page + 1), page |-> page + 1, raised |-> FALSE]

\* parse_response that yields the first selected record only
parse_response_FirstRecordOnly(e, b) ==
    IF b.kind \in {"unparseable", "overnested"} THEN 0
    ELSE IF b.kind = "dict" /\ b.error THEN 0
    ELSE IF b.kind = "dict" /\ b.entity = records_key(e) /\ b.listKind = "list"
    THEN Min(b.len, 1)
    ELSE 0

\* ------------------------------------------- ChanneldockStream.parse_response
\* The number of records the generator yields for stream e: nothing when the
\* body does not decode or is marked as an error, else what
\* records_jsonpath "$.<entity>[*]" selects.
parse_response(e, b) ==
    IF b.kind \in {"unparseable", "overnested"} THEN 0
    ELSE IF b.kind = "dict" /\ b.error THEN 0
    ELSE IF b.kind = "dict" /\ b.entity = records_key(e) /\ b.listKind = "list"
    THEN b.len
    ELSE 0

\* parse_response leaves by an exception: its except clause names
\* requests.exceptions.JSONDecodeError only
parse_response_raises(b) == b.kind = "overnested"

\* ------------------------------------------------------------- post_process
\* A value of a record is [t, v]: t is its JSON type ("null", "int", "str",
\* "list" or "dict") and v its JSON text. A record is a function from its
\* field names to values.
Null == [t |-> "null", v |-> "null"]

\* json.dumps(value): the string that holds the value's JSON text
json_dumps(x) == [t |-> "str", v |-> x.v]

\* array_fields of the stream's post_process; the suppliers stream inherits
\* the base post_process, which names no field
array_fields(e) ==
    IF e = "products" THEN {"tags", "child_products"}
    ELSE IF e = "orders" THEN {"order_products", "raw_order_data"}
    ELSE IF e = "deliveries" THEN {"supplier", "items"}
    ELSE {}

\* post_process that gives no default to a field the record lacks
post_process_KeepsMissing(e, row) ==
    IF DOMAIN row = {} THEN None
    ELSE Some([f \in DOMAIN row |->
                 IF f \in array_fields(e) /\ row[f].t \in {"list", "dict"}
                 THEN json_dumps(row[f])
                 ELSE row[f]])

\* post_process(row): None for a record that is dropped, else the record
\* returned
post_process(e, row) ==
    IF DOMAIN row = {} THEN None
    ELSE Some([f \in DOMAIN row \cup array_fields(e) |->
                 IF f \in array_fields(e)
                 THEN IF f \in DOMAIN row /\ row[f] # Null
                      THEN IF row[f].t \in {"list", "dict"}
                           THEN json_dumps(row[f])
                           ELSE row[f]
                      ELSE Null
                 ELSE row[f]])

\* ---------------------------------------- ChanneldockStream.validate_response
\* A header is [k, v]: k is "absent", "empty" (the empty string), "bad" (a
\* string int() rejects) or "int" (a string int() parses to v).
Truthy(h) == h.k \in {"bad", "int"}

\* int(time.time()); the clock reading is in tenths of a second
IntTime(now_t) == now_t \div 10

\* time.sleep(5) / time.sleep(30) of the remaining-quota branch
QuotaDelay(remaining) ==
    IF remaining < 100 THEN 5
    ELSE IF remaining < 50 THEN 30
    ELSE 0

\* the sleep of the 429 branch, in seconds
Wait429(reset, now_t) ==
    IF Truthy(reset)
    THEN IF reset.k = "bad" THEN 60
         ELSE LET wait_seconds == reset.v - IntTime(now_t)
              IN IF wait_seconds > 0 THEN Min(wait_seconds, 3600) ELSE 0
    ELSE 60

\* the exception raised, or none ("OK"), by status code
StatusOutcome(status) ==
    IF status = 429 THEN "RETRY"
    ELSE IF 500 <= status /\ status < 600 THEN "RETRY"
    ELSE IF 400 <= status /\ status < 500 THEN "FATAL"
    ELSE "OK"

\* the time.sleep calls of one validation in their order, in tenths of a
\* second: the unconditional one, then the remaining-quota one, then the 429
\* one
Sleeps(floor, quota, wait429) ==
    (IF floor > 0 THEN <<floor>> ELSE <<>>)
    \o (IF quota > 0 THEN <<10 * quota>> ELSE <<>>)
    \o (IF wait429 > 0 THEN <<10 * wait429>> ELSE <<>>)

\* validate_response with time.sleep(REQUEST_DELAY_SECONDS) moved behind the
\* status checks, where only a response that raises nothing reaches it
validate_response_FloorAtEnd(status, remaining, reset, now_t) ==
    LET bad == Truthy(remaining) /\ remaining.k = "bad"
        o == IF bad THEN "ValueError" ELSE StatusOutcome(status)
        f == IF o = "OK" THEN REQUEST_DELAY_TENTHS ELSE 0
        q == IF Truthy(remaining) /\ ~bad THEN QuotaDelay(remaining.v) ELSE 0
        w == IF status = 429 /\ ~bad THEN Wait429(reset, now_t) ELSE 0
    IN [outcome |-> o, floor |-> f, quota |-> q, wait429 |-> w,
        sleeps |-> (IF q > 0 THEN <<10 * q>> ELSE <<>>)
                   \o (IF w > 0 THEN <<10 * w>> ELSE <<>>)
                   \o (IF f > 0 THEN <<f>> ELSE <<>>)]

\* outcome  "OK" (returns), "RETRY" (RetriableAPIError), "FATAL"
\*          (FatalAPIError) or "ValueError" (int() of the remaining header)
\* floor    the unconditional sleep, in tenths of a second
\* quota    the remaining-quota sleep, in seconds
\* wait429  the 429 sleep, in seconds
\* sleeps   the time.sleep calls made, in their order
validate_response(status, remaining, reset, now_t) ==
    IF Truthy(remaining) /\ remaining.k = "bad"
    THEN [outcome |-> "ValueError", floor |-> REQUEST_DELAY_TENTHS,
          quota |-> 0, wait429 |-> 0,
          sleeps |-> Sleeps(REQUEST_DELAY_TENTHS, 0, 0)]
    ELSE LET q == IF Truthy(remaining) THEN QuotaDelay(remaining.v) ELSE 0
             w == IF status = 429 THEN Wait429(reset, now_t) ELSE 0
         IN [outcome |-> StatusOutcome(status),
             floor   |-> REQUEST_DELAY_TENTHS,
             quota   |-> q,
             wait429 |-> w,
             sleeps  |-> Sleeps(REQUEST_DELAY_TENTHS, q, w)]

\* --------------------------------------------------------- get_url_params
\* datetime.now(timezone.utc).strftime("%Y-%m-%d %H:%M:%S"): the clock reading
\* cut to whole seconds
strftime(clock) == clock \div TicksPerSecond

\* start_date.split("T")[0]: the date part of the configured start_date
DatePart(start_date) == start_date \div DayLen

\* ChanneldockStream.get_url_params
base_get_url_params(e, token, cfg_start) ==
    LET params == ("page" :> (IF token = None THEN 1 ELSE The(token)))
    IN IF cfg_start # None /\ replication_key(e) # None
       THEN params @@ ("date_from" :> DatePart(The(cfg_start)))
       ELSE params

\* ProductsStream.get_url_params; end is the new _current_end_date
products_get_url_params(token, bookmark_value, cfg_start, clock) ==
    LET p0 == base_get_url_params("products", token, cfg_start)
              @@ ("sort_attr" :> "stocking_date") @@ ("sort_dir" :> "ASC")
        p1 == IF bookmark_value # None
              THEN p0 @@ ("start_date" :> The(bookmark_value)) ELSE p0
    IN [params |-> p1 @@ ("end_date" :> strftime(clock)),
        end |-> Some(strftime(clock))]

\* SuppliersStream.get_url_params; _current_end_date does not exist there
suppliers_get_url_params(token) ==
    [params |-> ("page" :> (IF token = None THEN 1 ELSE The(token))),
     end |-> None]

\* OrdersStream.get_url_params with updated_at_from sent whether or not a
\* bookmark exists (the epoch when there is none)
orders_get_url_params_AlwaysFrom(token, bookmark_value, clock) ==
    [params |-> ("page" :> (IF token = None THEN 1 ELSE The(token)))
                @@ ("order_status" :> "ALL")
                @@ ("sort_attr" :> "updated_at") @@ ("sort_dir" :> "asc")
                @@ ("updated_at_from" :>
                      (IF bookmark_value = None THEN 0 ELSE The(bookmark_value)))
                @@ ("updated_at_to" :> strftime(clock)),
     end |-> Some(strftime(clock))]

\* OrdersStream.get_url_params
orders_get_url_params(token, bookmark_value, clock) ==
    LET p0 == ("page" :> (IF token = None THEN 1 ELSE The(token)))
              @@ ("order_status" :> "ALL")
              @@ ("sort_attr" :> "updated_at") @@ ("sort_dir" :> "asc")
        p1 == IF bookmark_value # None
              THEN p0 @@ ("updated_at_from" :> The(bookmark_value)) ELSE p0
    IN [params |-> p1 @@ ("updated_at_to" :> strftime(clock)),
        end |-> Some(strftime(clock))]

\* DeliveriesStream.get_url_params
deliveries_get_url_params(token, bookmark_value, cfg_delivery_type, clock) ==
    LET p0 == ("page" :> (IF token = None THEN 1 ELSE The(token)))
              @@ ("sort_attr" :> "updated_at") @@ ("sort_dir" :> "ASC")
        p1 == IF bookmark_value # None
              THEN p0 @@ ("updated_at" :> The(bookmark_value)) ELSE p0
        p2 == IF cfg_delivery_type # None
              THEN p1 @@ ("delivery_type" :> The(cfg_delivery_type)) ELSE p1
    IN [params |-> p2, end |-> Some(strftime(clock))]

\* the get_url_params of stream e
get_url_params(e, token, bookmark_value, cfg, clock) ==
    CASE e = "products"   ->
           products_get_url_params(token, bookmark_value, cfg.start_date, clock)
      [] e = "suppliers"  -> suppliers_get_url_params(token)
      [] e = "orders"     -> orders_get_url_params(token, bookmark_value, clock)
      [] e = "deliveries" ->
           deliveries_get_url_params(token, bookmark_value, cfg.delivery_type, clock)

\* the parameter names that carry a window bound
LowerKeys == {"start_date", "updated_at_from", "updated_at", "date_from"}
UpperKeys == {"end_date", "updated_at_to"}

\* get_replication_key_signpost of the three incremental streams returns
\* _current_end_date; the FULL_TABLE stream has no replication key and no
\* signpost
get_replication_key_signpost(e, current_end_date) ==
    IF e \in Incremental THEN current_end_date ELSE None

\* ===================================================== one stream's sync
VARIABLES
    clock,             \* the wall clock, in ticks
    config,            \* the tap configuration: start_date, delivery_type
    state,             \* persisted bookmarks: entity -> replication_key_value
    cur,               \* the stream class whose successive syncs are followed
    pc,                \* the driver's position in the sync
    current_end_date,  \* the stream instance's _current_end_date
    signpost,          \* the signpost written at the start of the sync
    starting,          \* get_starting_replication_key_value(context)
    progress,          \* the progress marker's replication_key_value
    pg_value,          \* the paginator's current_value (next_page_token)
    pg_page,           \* the paginator's _page
    params,            \* the query parameters of the prepared request
    tries,             \* the attempts made for the prepared request
    body,              \* the body of the response being processed
    pageRk,            \* the largest replication-key value of its records
    outcome,           \* how the last sync ended
    syncs,             \* the syncs started so far
    captured,          \* the upper bound built for the first request of the sync
    requested,         \* the upper bounds built for this stream's requests so far
    emitted,           \* the records of the sync handed downstream
    startBookmark,     \* the entity's bookmark when the sync started
    cleanUpper,        \* captured of the last cleanly finalized sync
    lastBody,          \* the body of the last response of the sync validated OK
    pgBody, pgPage, pgPage0, pgRet, pgRaised, pgCalls, \* a paginator on its own
    vStatus, vRemaining, vReset, vNow, vResult, vDone, \* validate_response on its own
    rPrimed,           \* the backoff library starts a wait generator by send(None)
    rYielded,          \* the values backoff_wait_generator() has yielded so far
    rStatuses,         \* the status codes one request has been answered with
    rWaits,            \* the values the retries of that request took as waits
    rOutcome,          \* how the request ended, "pending" until then
    tPhase,            \* one invocation of the tap: "start", "done" or "failed"
    tRan,              \* the streams whose sync the invocation completed
    tAborted,          \* the stream whose exception ended the invocation
    tStarted,          \* the streams whose sync was entered, in their order
    ppEntity,          \* post_process: the stream the record belongs to
    ppRow,             \* the record handed to post_process
    ppOut,             \* what post_process returned
    ppDone             \* post_process has returned

dvars == <<clock, config, state, cur, pc, current_end_date, signpost, starting,
           progress, pg_value, pg_page, params, tries, body, pageRk, outcome,
           syncs, captured, requested, emitted, startBookmark, cleanUpper,
           lastBody>>
pvars == <<pgBody, pgPage, pgPage0, pgRet, pgRaised, pgCalls>>
cvars == <<vStatus, vRemaining, vReset, vNow, vResult, vDone>>
rvars == <<rPrimed, rYielded, rStatuses, rWaits, rOutcome>>
tvars == <<tPhase, tRan, tAborted, tStarted>>
mvars == <<ppEntity, ppRow, ppOut, ppDone>>
vars == <<dvars, pvars, cvars, rvars, tvars, mvars>>

\* no response is held
NoBody == [kind |-> "none", entity |-> "products", count |-> None,
           listKind |-> "absent", len |-> 0, error |-> FALSE]
Absent == [k |-> "absent", v |-> 0]
NoResult == [outcome |-> "OK", floor |-> 0, quota |-> 0, wait429 |-> 0,
             sleeps |-> <<>>]

Configs == [start_date : {None, Some(1)}, delivery_type : {None, Some("inbound")}]

DriverInit ==
    /\ clock = 0
    /\ config \in Configs
    /\ state = [e \in Entities |-> None]
    /\ cur \in Entities
    /\ pc = "IDLE"
    /\ current_end_date = None
    /\ signpost = None
    /\ starting = None
    /\ progress = None
    /\ pg_value = 1
    /\ pg_page = 1
    /\ params = ("page" :> 1)
    /\ tries = 0
    /\ body = NoBody
    /\ pageRk = 0
    /\ outcome = "none"
    /\ syncs = 0
    /\ captured = None
    /\ requested = {}
    /\ emitted = 0
    /\ startBookmark = None
    /\ cleanUpper = None
    /\ lastBody = NoBody

PaginatorIdle ==
    /\ pgBody = NoBody /\ pgPage = 1 /\ pgPage0 = 1 /\ pgRet = None
    /\ pgRaised = FALSE
    /\ pgCalls = 0

ControllerIdle ==
    /\ vStatus = 200 /\ vRemaining = Absent /\ vReset = Absent /\ vNow = 0
    /\ vResult = NoResult /\ vDone = FALSE

RetryIdle ==
    /\ rPrimed = FALSE /\ rYielded = 0 /\ rStatuses = <<>> /\ rWaits = <<>>
    /\ rOutcome = "pending"

TapIdle ==
    /\ tPhase = "start" /\ tRan = {} /\ tAborted = None /\ tStarted = <<>>

PostProcessIdle ==
    /\ ppEntity = "products" /\ ppRow = <<>> /\ ppOut = None
    /\ ppDone = FALSE

Init ==
    /\ DriverInit /\ PaginatorIdle /\ ControllerIdle /\ RetryIdle /\ TapIdle
    /\ PostProcessIdle

\* time passes
Tick ==
    /\ clock < MaxClock
    /\ clock' = clock + 1
    /\ UNCHANGED <<config, state, cur, pc, current_end_date, signpost, starting,
                   progress, pg_value, pg_page, params, tries, body, pageRk,
                   outcome, syncs, captured, requested, emitted, startBookmark,
                   cleanUpper, lastBody>>

\* Stream.sync on a new instance of the stream class: the signpost is asked
\* for first, the starting replication value is the bookmark or else the
\* configured start_date, and request_records takes a new paginator.
StartSync ==
    /\ pc = "IDLE"
    /\ syncs < MaxSyncs
    /\ syncs' = syncs + 1
    /\ current_end_date' = None
    /\ signpost' = get_replication_key_signpost(cur, None)
    /\ starting' = IF replication_key(cur) = None THEN None
                   ELSE IF state[cur] # None THEN state[cur]
                   ELSE config.start_date
    /\ progress' = None
    /\ pg_value' = 1
    /\ pg_page' = 1
    /\ tries' = 0
    /\ outcome' = "running"
    /\ captured' = None
    /\ emitted' = 0
    /\ startBookmark' = state[cur]
    /\ pc' = "BUILDING_REQUEST"
    /\ UNCHANGED <<clock, config, state, cur, params, body, pageRk, requested,
                   cleanUpper, lastBody>>

\* prepare_request: get_url_params(context, paginator.current_value)
BuildRequest ==
    /\ pc = "BUILDING_REQUEST"
    /\ LET r == get_url_params(cur, Some(pg_value), starting, config, clock)
       IN /\ params' = r.params
          /\ current_end_date' = r.end
          /\ captured' = IF captured = None THEN r.end ELSE captured
          /\ requested' = requested \cup r.end
    /\ tries' = 0
    /\ pc' = "AWAITING_RESPONSE"
    /\ UNCHANGED <<clock, config, state, cur, signpost, starting, progress,
                   pg_value, pg_page, body, pageRk, outcome, syncs, emitted,
                   startBookmark, cleanUpper, lastBody>>

DriverStatuses == {200, 404, 429, 500}

\* what the server sends for a page of stream e: a mapping under e's own key
\* names, an error-marked mapping ({"response": "error", "message": ...},
\* which carries no records: no count and no list, or a zero count and an
\* empty list), an empty top-level list or no JSON at all
DriverBodies(e) ==
    {b \in Bodies :
        /\ b.kind = "dict" =>
              /\ b.entity = e
              /\ ~b.error => (b.count # None /\ b.listKind = "list")
              /\ b.error =>
                    \/ b.count = None /\ b.listKind = "absent"
                    \/ b.count = Some(0) /\ b.listKind = "list" /\ b.len = 0
        /\ b.kind = "list" => b.len = 0}
DriverRemaining == {Absent, [k |-> "int", v |-> 1000], [k |-> "bad", v |-> 0]}

\* the sync is over and its stream instance, paginator and prepared request
\* are gone
Discard ==
    /\ current_end_date' = None
    /\ signpost' = None
    /\ starting' = None
    /\ progress' = None
    /\ pg_value' = 1
    /\ pg_page' = 1
    /\ params' = ("page" :> 1)
    /\ tries' = 0
    /\ body' = NoBody
    /\ pageRk' = 0
    /\ lastBody' = NoBody

\* an aborted sync that promotes its progress marker all the same
AbortBookmark_Promotes(old, marker) == IF marker = None THEN old ELSE marker

\* the bookmark a sync leaves when it does not reach the end of its loop:
\* the progress marker is not promoted
AbortBookmark(old, marker) == old

\* an exception leaves the sync (FatalAPIError, RetriableAPIError after the
\* last try, ValueError, TypeError) or the process is stopped
Abort(how) ==
    /\ state' = [state EXCEPT ![cur] = AbortBookmark(@, progress)]
    /\ outcome' = how
    /\ pc' = "IDLE"
    /\ Discard

\* a retry loop that allows one attempt more than max_tries
GiveUp_OneTooLate(attempts) == attempts > MaxTries

\* the retry loop around _request gives up once max_tries attempts have been
\* made (RESTStream.backoff_max_tries, which the tap does not override)
GiveUp(attempts) == attempts >= MaxTries

\* a retry that prepares the request anew
PreparedOnRetry_Rebuilt(prepared, fresh) == fresh

\* what a retry sends: the retry loop is around _request(prepared_request),
\* the request prepared before the first attempt; get_url_params is not
\* called again (fresh is what it would build now)
PreparedOnRetry(prepared, fresh) == prepared

\* _request: the prepared request is sent and the response validated.  A
\* RetriableAPIError sends the same prepared request again until the tries
\* are used up, any other exception ends the sync.
Request ==
    /\ pc = "AWAITING_RESPONSE"
    /\ \E status \in DriverStatuses, remaining \in DriverRemaining :
         LET v == validate_response(status, remaining, Absent,
                                    (clock * 10) \div TicksPerSecond)
         IN CASE v.outcome = "OK" ->
                   /\ \E b \in DriverBodies(cur), rk \in 0..strftime(clock) :
                        /\ body' = b
                        /\ lastBody' = b
                        /\ pageRk' = IF parse_response(cur, b) > 0 THEN rk ELSE 0
                   /\ pc' = "EXTRACTING"
                   /\ UNCHANGED <<tries, outcome, current_end_date, signpost,
                                  starting, progress, pg_value, pg_page, params,
                                  state>>
              [] v.outcome = "RETRY" /\ ~GiveUp(tries + 1) ->
                   /\ tries' = tries + 1
                   /\ LET again ==
                            PreparedOnRetry(
                                [params |-> params, end |-> current_end_date],
                                get_url_params(cur, Some(pg_value), starting,
                                               config, clock))
                      IN /\ params' = again.params
                         /\ current_end_date' = again.end
                   /\ UNCHANGED <<body, pageRk, pc, outcome, signpost,
                                  starting, progress, pg_value, pg_page, state,
                                  lastBody>>
              [] v.outcome = "RETRY" /\ GiveUp(tries + 1) ->
                   Abort("exhausted")
              [] v.outcome = "FATAL" -> Abort("fatal")
              [] v.outcome = "ValueError" -> Abort("crashed")
    /\ UNCHANGED <<clock, config, cur, syncs, captured, requested, emitted,
                   startBookmark, cleanUpper>>

\* parse_response and the records' way out: every record of an INCREMENTAL
\* stream moves the progress marker to its replication-key value when that
\* is not smaller.  A page without records ends the loop in SDK releases
\* that stop on an empty page and goes on to paginator.advance in the others.
Extract ==
    /\ pc = "EXTRACTING"
    /\ IF parse_response_raises(body)
       THEN Abort("crashed") /\ UNCHANGED emitted
       ELSE LET n == parse_response(cur, body)
            IN /\ progress' =
                    IF n > 0 /\ replication_method(cur) = "INCREMENTAL"
                    THEN IF progress = None THEN Some(pageRk)
                         ELSE IF pageRk >= The(progress)
                              THEN Some(pageRk) ELSE progress
                    ELSE progress
               /\ emitted' = emitted + n
               /\ \/ pc' = "PAGINATING" /\ UNCHANGED <<body, pageRk>>
                  \/ n = 0 /\ pc' = "FINALIZING" /\ body' = NoBody
                     /\ pageRk' = 0
               /\ UNCHANGED <<state, current_end_date, signpost, starting,
                              pg_value, pg_page, params, tries, outcome,
                              lastBody>>
    /\ UNCHANGED <<clock, config, cur, syncs, captured, requested,
                   startBookmark, cleanUpper>>

\* paginator.advance(response): get_next decides whether the loop goes on
Advance ==
    /\ pc = "PAGINATING"
    /\ LET r == get_next(body, pg_page)
       IN CASE r.raised -> Abort("crashed")
            [] ~r.raised /\ r.ret = None ->
                 /\ pg_page' = r.page
                 /\ pc' = "FINALIZING"
                 /\ body' = NoBody
                 /\ pageRk' = 0
                 /\ UNCHANGED <<pg_value, outcome, current_end_date, signpost,
                                starting, progress, params, tries, state,
                                lastBody>>
            [] ~r.raised /\ r.ret # None ->
                 /\ The(r.ret) <= MaxPage
                 /\ pg_value' = The(r.ret)
                 /\ pg_page' = r.page
                 /\ pc' = "BUILDING_REQUEST"
                 /\ body' = NoBody
                 /\ pageRk' = 0
                 /\ UNCHANGED <<outcome, current_end_date, signpost, starting,
                                progress, params, tries, state, lastBody>>
    /\ UNCHANGED <<clock, config, cur, syncs, captured, requested, emitted,
                   startBookmark, cleanUpper>>

\* the bookmark _finalize_state writes: the progress marker's value, or the
\* signpost when the marker is beyond it; nothing without a marker
FinalBookmark(old, marker, sp) ==
    IF marker = None THEN old
    ELSE IF sp # None /\ The(marker) > The(sp) THEN sp
    ELSE marker

\* the loop is over: the state of the stream is finalized
Finalize ==
    /\ pc = "FINALIZING"
    /\ state' = [state EXCEPT ![cur] = FinalBookmark(@, progress, signpost)]
    /\ cleanUpper' = captured
    /\ outcome' = "clean"
    /\ pc' = "IDLE"
    /\ Discard
    /\ UNCHANGED <<clock, config, cur, syncs, captured, requested, emitted,
                   startBookmark>>

\* the process is stopped in the middle of a sync: what is persisted is the
\* state as last finalized
Terminate ==
    /\ pc # "IDLE"
    /\ Abort("terminated")
    /\ UNCHANGED <<clock, config, cur, syncs, captured, requested, emitted,
                   startBookmark, cleanUpper>>

Next ==
    \/ Tick /\ UNCHANGED <<pvars, cvars, rvars, tvars, mvars>>
    \/ StartSync /\ UNCHANGED <<pvars, cvars, rvars, tvars, mvars>>
    \/ BuildRequest /\ UNCHANGED <<pvars, cvars, rvars, tvars, mvars>>
    \/ Request /\ UNCHANGED <<pvars, cvars, rvars, tvars, mvars>>
    \/ Extract /\ UNCHANGED <<pvars, cvars, rvars, tvars, mvars>>
    \/ Advance /\ UNCHANGED <<pvars, cvars, rvars, tvars, mvars>>
    \/ Finalize /\ UNCHANGED <<pvars, cvars, rvars, tvars, mvars>>
    \/ Terminate /\ UNCHANGED <<pvars, cvars, rvars, tvars, mvars>>

Spec == Init /\ [][Next]_vars

\* =================================================== a paginator on its own
\* A ChanneldockPaginator whose _page is pgPage is handed the same response
\* up to MaxCalls times.
PaginatorInit ==
    /\ pgBody \in Bodies
    /\ pgPage \in 1..MaxPage
    /\ pgPage0 = pgPage
    /\ pgRet = None
    /\ pgRaised = FALSE
    /\ pgCalls = 0

\* the sync that pgvars belongs to has not started
DriverIdle ==
    /\ DriverInit
    /\ cur = "products"
    /\ config = [start_date |-> None, delivery_type |-> None]

\* get_next(response)
PgCall ==
    /\ pgCalls < MaxCalls
    /\ LET r == get_next(pgBody, pgPage)
       IN /\ pgRet' = r.ret
          /\ pgPage' = r.page
          /\ pgRaised' = r.raised
    /\ pgCalls' = pgCalls + 1
    /\ UNCHANGED <<pgBody, pgPage0, dvars, cvars, rvars, tvars, mvars>>

InitPaginator ==
    /\ PaginatorInit /\ DriverIdle /\ ControllerIdle /\ RetryIdle /\ TapIdle
    /\ PostProcessIdle

SpecPaginator == InitPaginator /\ [][PgCall]_vars

\* ========================================== validate_response on its own
Statuses == {200, 204, 299, 302, 400, 404, 429, 499, 500, 503, 599}
Empty == [k |-> "empty", v |-> 0]
Bad == [k |-> "bad", v |-> 0]
RemainingHeaders ==
    {Absent, Empty, Bad} \cup [k : {"int"}, v : {0, 49, 50, 99, 100, 1000}]
ResetHeaders ==
    {Absent, Empty, Bad} \cup [k : {"int"}, v : {999, 1000, 1001, 1120, 4600, 4601}]
Clocks == {10000, 10007}

ControllerInit ==
    /\ vStatus \in Statuses
    /\ vRemaining \in RemainingHeaders
    /\ vReset \in ResetHeaders
    /\ vNow \in Clocks
    /\ vResult = NoResult
    /\ vDone = FALSE

\* validate_response(response) at time vNow
Validate ==
    /\ ~vDone
    /\ vResult' = validate_response(vStatus, vRemaining, vReset, vNow)
    /\ vDone' = TRUE
    /\ UNCHANGED <<vStatus, vRemaining, vReset, vNow, dvars, pvars, rvars,
                   tvars, mvars>>

InitController ==
    /\ ControllerInit /\ DriverIdle /\ PaginatorIdle /\ RetryIdle /\ TapIdle
    /\ PostProcessIdle

SpecController == InitController /\ [][Validate]_vars

\* ================================================= one request and its retries
\* RESTStream wraps _request in backoff.on_exception(
\* self.backoff_wait_generator, RetriableAPIError, max_tries=...): a
\* RetriableAPIError of validate_response makes the library take the next
\* value of the generator as the wait (jitter is applied to that value) and
\* send the same prepared request again.  Releases 2.x of the library start a
\* wait generator with send(None), which runs it to its first yield and drops
\* the value; releases 1.x take the first yield as the first wait.
wait_times == <<30, 60, 120, 240>>

\* the n-th value backoff_wait_generator() yields, n = 1, 2, ...
backoff_wait_generator(n) ==
    IF n <= Len(wait_times) THEN wait_times[n] ELSE 240

RetryStatuses == {200, 404, 429, 500, 503}

RetryInit ==
    /\ rPrimed \in BOOLEAN
    /\ rYielded = IF rPrimed THEN 1 ELSE 0
    /\ rStatuses = <<>>
    /\ rWaits = <<>>
    /\ rOutcome = "pending"

\* one attempt of the decorated _request: send, validate_response, and on
\* RetriableAPIError either wait and go round again or give up
SendRequest ==
    /\ rOutcome = "pending"
    /\ \E status \in RetryStatuses :
         LET v == validate_response(status, Absent, Absent, 10000)
             attempts == Len(rStatuses) + 1
         IN /\ rStatuses' = Append(rStatuses, status)
            /\ CASE v.outcome = "RETRY" /\ attempts < MaxAttempts ->
                      /\ rYielded' = rYielded + 1
                      /\ rWaits' = Append(rWaits,
                                          backoff_wait_generator(rYielded + 1))
                      /\ UNCHANGED rOutcome
                 [] v.outcome = "RETRY" /\ attempts >= MaxAttempts ->
                      /\ rOutcome' = "giveup"
                      /\ UNCHANGED <<rYielded, rWaits>>
                 [] OTHER ->
                      /\ rOutcome' = v.outcome
                      /\ UNCHANGED <<rYielded, rWaits>>
    /\ UNCHANGED <<rPrimed, dvars, pvars, cvars, tvars, mvars>>

InitRetry ==
    /\ RetryInit /\ DriverIdle /\ PaginatorIdle /\ ControllerIdle /\ TapIdle
    /\ PostProcessIdle

SpecRetry == InitRetry /\ [][SendRequest]_vars

\* =================================================== one invocation of the tap
\* tap.py: the stream classes the tap registers
STREAM_TYPES == <<>>

\* TapChanneldock.discover_streams: one stream per registered class
discover_streams == [i \in 1..Len(STREAM_TYPES) |-> STREAM_TYPES[i]]

\* what the server makes of each stream's sync: how it ends and the progress
\* marker its records leave
Servers ==
    [Entities -> [outcome : {"clean", "fatal"}, marker : {None, Some(1)}]]

\* Tap.sync_all over the streams the tap discovered: each stream is synced
\* in turn and its state finalized; the exception of a sync is not caught
\* there and ends the invocation.
RECURSIVE sync_all(_, _, _, _)
sync_all(streams, srv, st, ran) ==
    IF streams = <<>>
    THEN [state |-> st, ran |-> ran, aborted |-> None, started |-> <<>>]
    ELSE LET e == Head(streams)
             marker == IF e \in Incremental THEN srv[e].marker ELSE None
         IN IF srv[e].outcome # "clean"
            THEN [state   |-> [st EXCEPT ![e] = AbortBookmark(@, marker)],
                  ran     |-> ran,
                  aborted |-> Some(e),
                  started |-> <<e>>]
            ELSE LET rest == sync_all(Tail(streams), srv,
                                      [st EXCEPT
                                          ![e] = FinalBookmark(@, marker, None)],
                                      ran \cup {e})
                 IN [rest EXCEPT !.started = <<e>> \o @]

\* the tap is started with a configuration and a state file
TapInit ==
    /\ clock = 0
    /\ config \in Configs
    /\ state \in [Entities -> {None, Some(0), Some(1)}]
    /\ cur = "products"
    /\ pc = "IDLE"
    /\ current_end_date = None /\ signpost = None /\ starting = None
    /\ progress = None /\ pg_value = 1 /\ pg_page = 1
    /\ params = ("page" :> 1) /\ tries = 0 /\ body = NoBody /\ pageRk = 0
    /\ outcome = "none" /\ syncs = 0 /\ captured = None /\ requested = {}
    /\ emitted = 0 /\ startBookmark = None /\ cleanUpper = None
    /\ lastBody = NoBody
    /\ tPhase = "start" /\ tRan = {} /\ tAborted = None /\ tStarted = <<>>

\* TapChanneldock.cli: discover_streams, then sync_all
Invoke ==
    /\ tPhase = "start"
    /\ \E srv \in Servers :
         LET r == sync_all(discover_streams, srv, state, {})
         IN /\ state' = r.state
            /\ tRan' = r.ran
            /\ tAborted' = r.aborted
            /\ tStarted' = r.started
            /\ tPhase' = IF r.aborted = None THEN "done" ELSE "failed"
    /\ UNCHANGED <<clock, config, cur, pc, current_end_date, signpost, starting,
                   progress, pg_value, pg_page, params, tries, body, pageRk,
                   outcome, syncs, captured, requested, emitted, startBookmark,
                   cleanUpper, lastBody, pvars, cvars, rvars, mvars>>

InitTap ==
    /\ TapInit /\ PaginatorIdle /\ ControllerIdle /\ RetryIdle
    /\ PostProcessIdle

\* ==================================================== one record post-processed
\* the most fields a record of the harness has
MaxFields == 3

\* the designated fields of the three incremental streams, and a plain one
RowFields ==
    {"id", "tags", "child_products", "order_products", "raw_order_data",
     "supplier", "items"}

RowValues ==
    {Null,
     [t |-> "int", v |-> "1"],
     [t |-> "str", v |-> "[1]"],
     [t |-> "list", v |-> "[]"],
     [t |-> "list", v |-> "[1]"],
     [t |-> "dict", v |-> "{}"]}

\* the records parse_response may yield: JSON objects, the empty one included
Rows ==
    UNION {[d -> RowValues] :
              d \in {x \in SUBSET RowFields : Cardinality(x) <= MaxFields}}

PostProcessInit ==
    /\ ppEntity \in Entities
    /\ ppRow \in Rows
    /\ ppOut = None
    /\ ppDone = FALSE

\* post_process(row) of the stream ppEntity
PostProcess ==
    /\ ~ppDone
    /\ ppOut' = post_process(ppEntity, ppRow)
    /\ ppDone' = TRUE
    /\ UNCHANGED <<ppEntity, ppRow, dvars, pvars, cvars, rvars, tvars>>

InitPostProcess ==
    /\ PostProcessInit /\ DriverIdle /\ PaginatorIdle /\ ControllerIdle
    /\ RetryIdle /\ TapIdle

SpecPostProcess == InitPostProcess /\ [][PostProcess]_vars

SpecTap == InitTap /\ [][Invoke]_vars

\* ================================================================ claims
\* the lower-bound filter values a request carries (date_from aside)
LowerBound(p) ==
    {p[k] : k \in DOMAIN p \cap {"start_date", "updated_at_from", "updated_at"}}

\* C1: in an incremental sync the upper bound built for every page request
\* is the one built for the first request of the sync, and the end_date /
\* updated_at_to parameter of the request in flight carries that value.
C1_UpperBoundFixedPerSync ==
    (cur \in Incremental /\ pc \notin {"IDLE", "BUILDING_REQUEST"}) =>
        /\ current_end_date = captured
        /\ \A k \in DOMAIN params \cap UpperKeys : Some(params[k]) = captured

\* C2: the bookmark a cleanly finalized incremental sync commits is the
\* upper bound captured at the start of that sync, and a bookmark is always
\* one of the upper bounds built for this stream's requests.
C2_BookmarkIsCapturedUpperBound ==
    /\ (cur \in Incremental /\ pc = "IDLE" /\ outcome = "clean"
           /\ state[cur] # startBookmark) =>
           state[cur] = captured
    /\ state[cur] \subseteq requested

\* C3: when a sync ends by a fatal response, by the retries running out, by
\* any other exception or by the process being stopped, the bookmark of the
\* stream is the one it had when the sync started, and no other stream's
\* bookmark has been written.
C3_AbortKeepsBookmark ==
    outcome \in {"fatal", "exhausted", "terminated", "crashed"} =>
        /\ state[cur] = startBookmark
        /\ \A e \in Entities \ {cur} : state[e] = None

\* C3 witness: an incremental sync that emitted the records of a full page
\* and then ended by a fatal response.
C3_Witness ==
    /\ cur \in Incremental /\ pc = "IDLE" /\ emitted >= PAGE_SIZE
    /\ outcome = "fatal"

\* C4 as stated: the first request of an incremental sync that starts
\* without a bookmark carries no lower-bound parameter, whatever the
\* configuration.
C4_NoLowerBoundOnFirstSync ==
    (cur \in Incremental /\ pc = "AWAITING_RESPONSE" /\ pg_value = 1
       /\ startBookmark = None) =>
        DOMAIN params \cap LowerKeys = {}

\* C4 amended: the first request of an incremental sync that starts without
\* a bookmark and without a configured start_date carries no lower-bound
\* parameter.
C4_NoLowerBoundWithoutStartDate ==
    (cur \in Incremental /\ pc = "AWAITING_RESPONSE" /\ pg_value = 1
       /\ startBookmark = None /\ config.start_date = None) =>
        DOMAIN params \cap LowerKeys = {}

\* C4 witness: such a first request of the orders stream is in flight.
C4_Witness ==
    /\ cur = "orders" /\ pc = "AWAITING_RESPONSE" /\ pg_value = 1
    /\ startBookmark = None /\ config.start_date = None
    /\ "updated_at_to" \in DOMAIN params

\* C5: once a sync of an incremental stream has finalized cleanly, every
\* request of the following syncs carries a lower bound equal to the
\* bookmark, which is the upper bound of the last cleanly finalized sync.
C5_LowerBoundIsLastUpperBound ==
    (cur \in Incremental /\ pc = "AWAITING_RESPONSE" /\ cleanUpper # None) =>
        /\ LowerBound(params) = state[cur]
        /\ LowerBound(params) = cleanUpper

\* the count field is zero or the record list is shorter than the page size
EndOfData(b) ==
    /\ b.kind = "dict"
    /\ \/ b.count = Some(0)
       \/ b.listKind = "list" /\ b.len < PAGE_SIZE

\* C6: for a page whose count field is zero or whose record list is shorter
\* than PAGE_SIZE, every call of get_next with that response returns None
\* and leaves the paginator's _page as it was before the first call.
C6_EndOfDataIsNoneIdempotent ==
    (pgCalls >= 1 /\ EndOfData(pgBody)) =>
        pgRet = None /\ ~pgRaised /\ pgPage = pgPage0

\* C6 witness: get_next has been called twice with a short page of a
\* non-zero count.
C6_Witness ==
    /\ pgCalls = 2 /\ pgBody.kind = "dict" /\ pgBody.entity = "products"
    /\ pgBody.count = Some(120) /\ pgBody.listKind = "list"
    /\ pgBody.len = PAGE_SIZE - 1

\* C7: for a page of any entity whose count field is non-zero and whose
\* record list holds PAGE_SIZE records, get_next returns the cursor plus one.
C7_FullPageAdvances ==
    (pgCalls = 1 /\ pgBody.kind = "dict" /\ ~pgBody.error
       /\ pgBody.count # None /\ pgBody.count # Some(0)
       /\ pgBody.listKind = "list" /\ pgBody.len = PAGE_SIZE) =>
        pgRet = Some(pgPage0 + 1)

\* the body is not JSON, is not a mapping, or is a mapping with neither a
\* count field nor a record list
Malformed(b) ==
    \/ b.kind \in {"unparseable", "list"}
    \/ b.kind = "dict" /\ b.count = None /\ b.listKind # "list"

\* C8: for every malformed page body get_next returns None and raises
\* nothing.
C8_MalformedEndsPagination ==
    (pgCalls >= 1 /\ Malformed(pgBody)) => pgRet = None /\ ~pgRaised

\* C9: the outcome of validate_response is decided by the status code: OK
\* for 2xx, RETRY for 429 and 5xx, FATAL for every other 4xx.
C9_OutcomeByStatus ==
    vDone =>
        /\ (200 <= vStatus /\ vStatus < 300) => vResult.outcome = "OK"
        /\ vStatus = 429 => vResult.outcome = "RETRY"
        /\ (500 <= vStatus /\ vStatus < 600) => vResult.outcome = "RETRY"
        /\ (400 <= vStatus /\ vStatus < 500 /\ vStatus # 429) =>
               vResult.outcome = "FATAL"

\* C10: a 429 response is answered by RETRY after sleeping; the 429 wait is
\* min(reset - now, 3600) seconds when X-RateLimit-Reset parses to a time
\* after now, 60 seconds when the header is missing or does not parse, and
\* never more than 3600 seconds.
C10_Wait429 ==
    (vDone /\ vStatus = 429) =>
        /\ vResult.outcome = "RETRY"
        /\ vResult.floor > 0
        /\ (vReset.k = "int" /\ vReset.v > IntTime(vNow)) =>
               vResult.wait429 = Min(vReset.v - IntTime(vNow), 3600)
        /\ vReset.k \in {"absent", "empty", "bad"} => vResult.wait429 = 60
        /\ vResult.wait429 <= 3600

\* C11: when X-RateLimit-Remaining holds an integer, the remaining-quota
\* sleep is 30 s for every value below 50, 5 s for every value from 50 to 99
\* and none from 100 on; there is none either when the header is absent.
C11_QuotaDelayByThreshold ==
    vDone =>
        /\ (vRemaining.k = "int" /\ vRemaining.v < 50) => vResult.quota = 30
        /\ (vRemaining.k = "int" /\ 50 <= vRemaining.v /\ vRemaining.v < 100) =>
               vResult.quota = 5
        /\ (vRemaining.k = "int" /\ vRemaining.v >= 100) => vResult.quota = 0
        /\ vRemaining.k = "absent" => vResult.quota = 0

\* C12: whatever the status code and the quota headers, the first thing a
\* validation does is the unconditional sleep of REQUEST_DELAY_SECONDS: it
\* has been slept, before every other sleep, when the validation returns or
\* raises.
C12_FloorDelayFirst ==
    vDone =>
        /\ vResult.floor = REQUEST_DELAY_TENTHS
        /\ Len(vResult.sleeps) >= 1
        /\ Head(vResult.sleeps) = REQUEST_DELAY_TENTHS

\* C12 witness: a 404 response with a low remaining quota was validated:
\* FatalAPIError after the unconditional sleep and the quota sleep.
C12_Witness ==
    /\ vDone /\ vStatus = 404 /\ vRemaining = [k |-> "int", v |-> 49]
    /\ vResult.outcome = "FATAL"
    /\ vResult.sleeps = <<REQUEST_DELAY_TENTHS, 50>>

\* C13: the wait taken before the n-th retry of a request is the n-th entry
\* of the table 30, 60, 120, 240 for n <= 4 and 240 for every later retry;
\* five 5xx responses in a row are retried with waits 30, 60, 120, 240, 240.
C13_WaitsFollowTable ==
    \A n \in 1..Len(rWaits) :
        rWaits[n] = IF n <= 4 THEN <<30, 60, 120, 240>>[n] ELSE 240

\* C14: a request is never retried more than max_tries - 1 times; when the
\* attempt after the last retry is answered by RETRY again, no further
\* attempt is made: the exception ends the sync of the stream, which goes
\* back to IDLE without writing a bookmark.
C14_RetriesBounded ==
    [][/\ tries' <= MaxTries - 1
       /\ (outcome' = "exhausted" /\ outcome # "exhausted") =>
              /\ pc = "AWAITING_RESPONSE" /\ tries = MaxTries - 1
              /\ pc' = "IDLE" /\ state' = state]_vars

\* C14 witness: the retries ran out on a later page, after the records of a
\* full page had been emitted.
C14_Witness ==
    /\ outcome = "exhausted" /\ pc = "IDLE" /\ emitted >= PAGE_SIZE

FullPage(b) ==
    /\ b.kind = "dict" /\ ~b.error /\ b.count # None /\ b.count # Some(0)
    /\ b.listKind = "list" /\ b.len = PAGE_SIZE

\* the records a page holds
Records(b) ==
    IF b.kind = "dict" /\ ~b.error /\ b.listKind = "list" THEN b.len ELSE 0

\* a page of a mapping with fewer than PAGE_SIZE records
ShortPage(b) ==
    /\ b.kind = "dict" /\ ~b.error /\ b.listKind = "list" /\ b.len < PAGE_SIZE

\* C16: in a sync that is answered OK with full pages followed by a page of
\* fewer than PAGE_SIZE records, every record of a page fetched is emitted,
\* a full page is followed by the request for the next page (cursor plus
\* one) and the short page by FINALIZING: pages 1, ..., k are requested and
\* no other (50 then 20 records: 2 pages, 70 records).
C16_PagesUntilShortPage ==
    [][/\ (pc = "EXTRACTING" /\ pc' \notin {"EXTRACTING", "IDLE"}) =>
              emitted' = emitted + Records(body)
       /\ (pc = "PAGINATING" /\ pc' # "PAGINATING"
              /\ outcome' # "terminated") =>
              /\ FullPage(body) =>
                     pc' = "BUILDING_REQUEST" /\ pg_value' = pg_value + 1
              /\ ShortPage(body) => pc' = "FINALIZING"]_vars

C18_UnparseableYieldsNothing ==
    [][(pc = "EXTRACTING" /\ body.kind \in {"unparseable", "overnested"}) =>
          /\ emitted' = emitted
          /\ outcome' # "crashed"]_vars

\* C19: a sync of the FULL_TABLE stream (suppliers) writes no bookmark and
\* builds requests that carry the page cursor and nothing else: no step of
\* it changes the persisted state of any stream.
C19_FullTableWritesNothing ==
    [][cur = "suppliers" =>
          /\ state' = state
          /\ DOMAIN params' = {"page"}]_vars

\* C19 witness: a suppliers sync has finalized cleanly after emitting the
\* records of a full page.
C19_Witness ==
    /\ cur = "suppliers" /\ pc = "IDLE" /\ outcome = "clean"
    /\ emitted = PAGE_SIZE /\ state["suppliers"] = None

\* C20: every request of an INCREMENTAL stream carries an upper-bound
\* parameter (end_date / updated_at_to), and with it a lower-bound
\* parameter whenever the sync started from a bookmark.
C20_UpperBoundOnEveryRequest ==
    (cur \in Incremental /\ pc = "AWAITING_RESPONSE") =>
        /\ DOMAIN params \cap UpperKeys # {}
        /\ startBookmark # None =>
               DOMAIN params \cap {"start_date", "updated_at_from",
                                   "updated_at"} # {}

\* C21: within a sync the pages are handled strictly one after another: a
\* request is sent only for the cursor just built, a response is extracted
\* only after validate_response let it through, the paginator is asked only
\* after every record of the page has been emitted, and the cursor moves
\* to the next page only then; at most one request is outstanding.
C21_PagesStrictlySequential ==
    [][/\ (pc' = "AWAITING_RESPONSE" /\ pc # "AWAITING_RESPONSE") =>
              pc = "BUILDING_REQUEST" /\ body' = NoBody
       /\ (pc' = "EXTRACTING" /\ pc # "EXTRACTING") =>
              /\ pc = "AWAITING_RESPONSE"
              /\ body' # NoBody /\ body' = lastBody'
              /\ emitted' = emitted
       /\ (pc' = "PAGINATING" /\ pc # "PAGINATING") =>
              /\ pc = "EXTRACTING"
              /\ emitted' = emitted + Records(body)
       /\ (pg_value' # pg_value /\ pc' # "IDLE") =>
              /\ pc = "PAGINATING" /\ pc' = "BUILDING_REQUEST"
              /\ body = lastBody /\ pg_value' = pg_value + 1]_vars

\* C21 witness: the request for page 2 of a products sync is outstanding
\* and the 50 records of page 1 have been emitted.
C21_Witness ==
    /\ cur = "products" /\ pc = "AWAITING_RESPONSE" /\ pg_value = 2
    /\ emitted = PAGE_SIZE /\ FullPage(lastBody)

\* C22: a retry sends the request that failed: the step that counts a retry
\* leaves the page cursor, the query parameters with their lower and upper
\* bound, and the captured upper bound as they were.
C22_RetryReusesRequest ==
    [][tries' = tries + 1 =>
          /\ params' = params
          /\ pg_value' = pg_value /\ pg_page' = pg_page
          /\ current_end_date' = current_end_date
          /\ captured' = captured /\ requested' = requested]_vars

\* C22 witness: a products request is being retried at a second later than
\* the one its end_date was built in.
C22_Witness ==
    /\ cur = "products" /\ pc = "AWAITING_RESPONSE" /\ tries >= 1
    /\ params["end_date"] < strftime(clock)

\* C25: validate_response is total: whatever the status code and the
\* X-RateLimit-Remaining and X-RateLimit-Reset headers (absent, empty,
\* integer strings or strings that are no integers), it ends with OK, RETRY
\* or FATAL and with no other failure.
C25_ControllerTotal ==
    vDone => vResult.outcome \in {"OK", "RETRY", "FATAL"}

\* C27: a 429 response whose X-RateLimit-Reset parses to a time at or before
\* the current time gets no sleep of the 429 branch and is signalled RETRY.
C27_PastResetNoWaitRetry ==
    (vDone /\ vStatus = 429 /\ vReset.k = "int"
           /\ vReset.v <= IntTime(vNow)) =>
        /\ vResult.wait429 = 0
        /\ vResult.outcome = "RETRY"

\* C28: under the non-decreasing clock, every sync of an incremental
\* stream that starts from a bookmark has a replication-key signpost, and
\* the signpost is at or after that bookmark, so that the bookmark it bounds
\* does not go back.
C28_SignpostNotBelowBookmark ==
    (cur \in Incremental /\ pc = "AWAITING_RESPONSE"
         /\ startBookmark # None) =>
        \E s \in signpost : \A b \in startBookmark : s >= b

\* C23: one invocation of the tap enters the sync of each of products,
\* suppliers, orders and deliveries, one after another: when the invocation
\* is over without an abort, every one of them has been started, and none
\* was started twice.
C23_EveryEntitySynced ==
    tPhase = "done" =>
        /\ \A e \in Entities : \E i \in 1..Len(tStarted) : tStarted[i] = e
        /\ \A i, j \in 1..Len(tStarted) : tStarted[i] = tStarted[j] => i = j

\* what C26 says of a field the record returned holds
C26_FieldAsClaimed(e, row, out, f) ==
    IF f \in array_fields(e) /\ row[f].t \in {"list", "dict"}
    THEN out[f].t = "str" /\ out[f].v = row[f].v
    ELSE out[f] = row[f]

LastPage(b) == b.kind # "none" /\ ~FullPage(b)

\* C24: every sync ends after finitely many requests: a page is requested
\* at most MaxTries times, whatever RETRY-class statuses the server goes on
\* answering, and once the server has returned a short, empty, error-marked
\* or malformed page no further request is built: the sync goes on to
\* FINALIZING or aborts.
C24_SyncEndsAfterLastPage ==
    [][/\ tries' < MaxTries
       /\ (pc \in {"EXTRACTING", "PAGINATING"} /\ LastPage(body)) =>
              pc' \in {"EXTRACTING", "PAGINATING", "FINALIZING", "IDLE"}]_vars

====
